---- MODULE Spec2Model ----
(***************************************************************************)
(* A model of libtest-mimic's run_tests (src/src/lib.rs): test selection,  *)
(* the sequential and the thread-pool execution paths, the aggregation of  *)
(* outcomes into a Conclusion and the calls made on the Printer.           *)
(*                                                                         *)
(* Strings are sequences of one-character strings, so that substring      *)
(* containment is computed and not assumed.  An Option<T> is a sequence of *)
(* length 0 (None) or 1 (Some(x)).  A test is identified by its position   *)
(* in the catalog handed to run_tests; `tests` is the post-filter list of  *)
(* those positions, in catalog order.                                      *)
(***************************************************************************)
EXTENDS Integers, Sequences, FiniteSets, TLC

\* ------------------------------------------------------------------ bounds
\* Longest catalog handed to run_tests.
MaxTests == 3
\* Largest number of CPUs of the machine (the size of ThreadPool::default()).
MaxCpus == 3

\* ----------------------------------------------------------------- strings
None == <<>>
Some(x) == <<x>>

s_a == <<"a">>
s_b == <<"b">>
s_c == <<"c">>
s_al == <<"a", "l">>
s_alpha == <<"a", "l", "p", "h", "a">>
s_beta == <<"b", "e", "t", "a">>
s_calpha == <<"c", "a", "l", "p", "h", "a">>
\* Two values of --logfile: a file in the working directory and a file in a
\* directory that does not exist.
s_log == <<"l", "o", "g">>
s_nodir_log == <<"x", "/", "l", "o", "g">>

\* str::contains: pat occurs in s as a contiguous substring.
Contains(s, pat) ==
    \E i \in 0..(Len(s) - Len(pat)) : SubSeq(s, i + 1, i + Len(pat)) = pat

\* ---------------------------------------------------------------- outcomes
Passed == "Passed"
Failed == "Failed"
Ignored == "Ignored"
Measured == "Measured"
Outcome == {Passed, Failed, Ignored, Measured}

\* The runner does not return for a test: it panics.
Panics == "Panics"

Pretty == "Pretty"
Terse == "Terse"
Json == "Json"

\* Test::test / Test::bench and a struct literal with both flags free.
Test(name, is_ignored, is_bench) ==
    [name |-> name, is_ignored |-> is_ignored, is_bench |-> is_bench]

\* Conclusion::empty
EmptyConclusion ==
    [num_filtered_out |-> 0, num_passed |-> 0, num_failed |-> 0,
     num_ignored |-> 0, num_benches |-> 0]

\* has_failed that takes ignored tests for failures.
has_failed_counting_ignored(c) == c.num_failed + c.num_ignored > 0

\* Conclusion::has_failed
has_failed(c) == c.num_failed > 0

\* The codes Conclusion::exit hands to process::exit.
ExitFailure == 101
ExitSuccess == 0

\* Conclusion::exit: exit_if_failed, then process::exit(0).
ExitCode(c) == IF has_failed(c) THEN ExitFailure ELSE ExitSuccess

\* ----------------------------------------------------------------- selector
\* is_ignored with the negation of the ignored flag lost.
is_ignored_negation_lost(a, test) ==
    \/ (test.is_ignored /\ a.ignored)
    \/ (test.is_bench /\ a.test)
    \/ (~test.is_bench /\ a.bench)

\* Arguments::is_ignored
is_ignored(a, test) ==
    \/ (test.is_ignored /\ ~a.ignored)
    \/ (test.is_bench /\ a.test)
    \/ (~test.is_bench /\ a.bench)

\* The filter match with the arms of `match self.exact` swapped.
FilterRejectsArmsSwapped(a, test) ==
    /\ a.filter_string # None
    /\ IF a.exact THEN ~Contains(test.name, a.filter_string[1])
                  ELSE test.name # a.filter_string[1]

\* The match arm of is_filtered_out on the filter string.
FilterRejects(a, test) ==
    /\ a.filter_string # None
    /\ IF a.exact THEN test.name # a.filter_string[1]
                  ELSE ~Contains(test.name, a.filter_string[1])

\* One iteration of the loop over the skip patterns: the arm that returns.
SkipArm(exact, name, skip_filter) ==
    IF exact THEN name = skip_filter ELSE Contains(name, skip_filter)

\* `for skip_filter in &self.skip`: the patterns in order, returning true at
\* the first that matches and false after the last.
RECURSIVE SkipLoop(_, _, _)
SkipLoop(exact, name, skip) ==
    IF skip = <<>> THEN FALSE
    ELSE IF SkipArm(exact, name, Head(skip)) THEN TRUE
    ELSE SkipLoop(exact, name, Tail(skip))

\* A loop that decides on the first skip pattern alone.
SkipMatchesFirstOnly(a, test) ==
    a.skip # <<>> /\ SkipArm(a.exact, test.name, Head(a.skip))

\* The loop of is_filtered_out over the skip patterns.
SkipMatches(a, test) == SkipLoop(a.exact, test.name, a.skip)

\* Arguments::is_filtered_out
is_filtered_out(a, test) == FilterRejects(a, test) \/ SkipMatches(a, test)

\* The positions of cat in 1..n, in order.
RECURSIVE Positions(_)
Positions(n) == IF n = 0 THEN <<>> ELSE Append(Positions(n - 1), n)

\* tests.retain(|test| !args.is_filtered_out(test)), guarded as in run_tests.
Retain(a, cat) ==
    IF a.filter_string # None \/ Len(a.skip) > 0
    THEN SelectSeq(Positions(Len(cat)), LAMBDA t : ~is_filtered_out(a, cat[t]))
    ELSE Positions(Len(cat))

\* ------------------------------------------------------------------ printer
\* Printer::new: the format the printer works with.
PrinterFormat(a) ==
    IF a.quiet THEN Terse
    ELSE IF a.format = None THEN Pretty ELSE a.format[1]

\* File::create(logfile) fails: the directory of the path does not exist.
CreateFails(path) == path = s_nodir_log

\* Printer::new panics: `File::create(logfile).expect("failed to create
\* logfile")`.
SinkFails(a) == a.logfile # None /\ CreateFails(a.logfile[1])

\* Printer::print_list refuses the format: the Json format is unimplemented
\* and requesting it is fatal before any output.
PrintListRejects(a) == PrinterFormat(a) = Json

\* Printer::print_title: the call recorded with the number it prints.
TitleEvent(n) == [op |-> "print_title", num_tests |-> n]

\* Printer::print_test: the announcement of one test.
TestEvent(t) == [op |-> "print_test", test |-> t]

\* Printer::print_single_outcome: the outcome of one test.
OutcomeEvent(t, o) == [op |-> "print_single_outcome", test |-> t, outcome |-> o]

\* Printer::print_failures (called from run_tests with the failure list).
FailuresEvent(f) == [op |-> "print_failures", failed |-> f]

\* Printer::print_summary: the five numbers of the summary line and its
\* result word; the measured position is the literal -1 of the source.
SummaryEvent(c) ==
    [op |-> "print_summary",
     word |-> IF has_failed(c) THEN Failed ELSE Passed,
     passed |-> c.num_passed, failed |-> c.num_failed,
     ignored |-> c.num_ignored, measured |-> -1,
     filtered_out |-> c.num_filtered_out]

\* Printer::print_list: the names listed for --list.
ListEvent(names) == [op |-> "print_list", names |-> names]

\* The text print_test writes: nothing in terse mode.
PrintTestText(format, name) ==
    IF format = Pretty THEN <<"test ", name, " ... ">> ELSE <<>>

\* print_outcome_pretty: the word of an outcome (the source has no arm for
\* Measured).
OutcomeWord(o) ==
    CASE o = Passed -> "ok" [] o = Failed -> "FAILED" [] o = Ignored -> "ignored"

\* The character of an outcome in terse mode (no arm for Measured either).
OutcomeChar(o) ==
    CASE o = Failed -> "F" [] o = Passed -> "." [] o = Ignored -> "i"

\* The text print_single_outcome writes.
PrintOutcomeText(format, o) ==
    IF format = Pretty THEN <<OutcomeWord(o), "\n">> ELSE <<OutcomeChar(o)>>

\* --------------------------------------------------------------- aggregator
\* handle_outcome that stops counting passes once a test has failed.
AggregateForgetsPassesAfterFailure(c, outcome, test) ==
    LET b == IF test.is_bench
             THEN [c EXCEPT !.num_benches = @ + 1]
             ELSE c
    IN CASE outcome = Passed ->
                IF b.num_failed > 0 THEN b ELSE [b EXCEPT !.num_passed = @ + 1]
         [] outcome = Failed -> [b EXCEPT !.num_failed = @ + 1]
         [] outcome = Ignored -> [b EXCEPT !.num_ignored = @ + 1]
         [] outcome = Measured -> b

\* The counters handle_outcome updates.
Aggregate(c, outcome, test) ==
    LET b == IF test.is_bench
             THEN [c EXCEPT !.num_benches = @ + 1]
             ELSE c
    IN CASE outcome = Passed -> [b EXCEPT !.num_passed = @ + 1]
         [] outcome = Failed -> [b EXCEPT !.num_failed = @ + 1]
         [] outcome = Ignored -> [b EXCEPT !.num_ignored = @ + 1]
         [] outcome = Measured -> b

\* The msg of the Outcome::Failed the runner returns for test t: some tests
\* fail with a message, the others without.
FailureMessage(t) == IF t % 2 = 1 THEN Some(<<"e", "r", "r">>) ELSE None

\* A failure list that keeps the first failure only.
RecordFailureOnlyFirst(f, outcome, t) ==
    IF outcome = Failed /\ f = <<>>
    THEN Append(f, <<t, FailureMessage(t)>>)
    ELSE f

\* The failure list handle_outcome updates: failed_tests.push((test, msg)).
RecordFailure(f, outcome, t) ==
    IF outcome = Failed THEN Append(f, <<t, FailureMessage(t)>>) ELSE f

\* -------------------------------------------------------------------- state
VARIABLES
    args,          \* the Arguments of the run
    catalog,       \* the tests handed to run_tests
    runner,        \* the evaluation function: catalog position -> Outcome
    num_cpus,      \* the CPUs of the machine, the size of ThreadPool::default()
    pc,            \* where the thread that called run_tests is
    tests,         \* the tests left after filtering (catalog positions)
    conclusion,    \* the Conclusion under construction
    failed_tests,  \* the failure list
    out,           \* the calls made on the printer, in order
    idx,           \* the for loops' position in tests (1-based)
    main_eval,     \* the test the calling thread is evaluating, if any
    queue,         \* jobs handed to the pool and not yet started
    active,        \* tests being evaluated by pool workers
    chan,          \* the mpsc channel: <<outcome, test>> messages in flight
    taken,         \* messages received by receiver.iter().take(num_tests)
    result,        \* the Conclusion run_tests returned, if it returned
    evals,         \* history: calls of the runner, per test
    handled,       \* history: calls of handle_outcome, per test
    sent           \* history: tests in the order they were sent on the channel

vars == <<args, catalog, runner, num_cpus, pc, tests, conclusion, failed_tests,
          out, idx, main_eval, queue, active, chan, taken, result, evals,
          handled, sent>>

inputs == <<args, catalog, runner, num_cpus>>

\* The branch condition off by one.
IsSequentialOffByOne(a) == a.num_threads = Some(0)

\* The branch of run_tests at `if args.num_threads == Some(1)`.
IsSequential(a) == a.num_threads = Some(1)

\* The tests being evaluated right now, on any thread.
Running == active \cup {main_eval[k] : k \in 1..Len(main_eval)}

\* ------------------------------------------------------------------ actions
\* run_tests up to `let tests = tests;`: the filter pre-pass.
ApplyFiltering ==
    /\ pc = "start"
    /\ tests' = Retain(args, catalog)
    /\ conclusion' = [conclusion EXCEPT
           !.num_filtered_out =
               IF args.filter_string # None \/ Len(args.skip) > 0
               THEN Len(catalog) - Len(tests')
               ELSE @]
    /\ pc' = "filtered"
    /\ UNCHANGED <<inputs, failed_tests, out, idx, main_eval, queue, active,
                   chan, taken, result, evals, handled, sent>>

\* Printer::new fails to create the logfile: run_tests panics.
PrinterNewPanics ==
    /\ pc = "filtered"
    /\ SinkFails(args)
    /\ pc' = "panicked"
    /\ UNCHANGED <<inputs, tests, conclusion, failed_tests, out, idx, main_eval,
                   queue, active, chan, taken, result, evals, handled, sent>>

\* `if args.list` with a format print_list refuses: run_tests panics.
ListTestsPanics ==
    /\ pc = "filtered"
    /\ ~SinkFails(args)
    /\ args.list
    /\ PrintListRejects(args)
    /\ pc' = "panicked"
    /\ UNCHANGED <<inputs, tests, conclusion, failed_tests, out, idx, main_eval,
                   queue, active, chan, taken, result, evals, handled, sent>>

\* The list short-circuit returning the Conclusion built so far.
ListTestsReturnsConclusion ==
    /\ pc = "filtered"
    /\ ~SinkFails(args)
    /\ args.list
    /\ ~PrintListRejects(args)
    /\ out' = Append(out, ListEvent([k \in 1..Len(tests) |-> catalog[tests[k]].name]))
    /\ result' = Some(conclusion)
    /\ pc' = "done"
    /\ UNCHANGED <<inputs, tests, conclusion, failed_tests, idx, main_eval,
                   queue, active, chan, taken, evals, handled, sent>>

\* `if args.list`: print the list and return the dummy Conclusion.
ListTests ==
    /\ pc = "filtered"
    /\ ~SinkFails(args)
    /\ args.list
    /\ ~PrintListRejects(args)
    /\ out' = Append(out, ListEvent([k \in 1..Len(tests) |-> catalog[tests[k]].name]))
    /\ result' = Some(EmptyConclusion)
    /\ pc' = "done"
    /\ UNCHANGED <<inputs, tests, conclusion, failed_tests, idx, main_eval,
                   queue, active, chan, taken, evals, handled, sent>>

\* print_title writing the title whatever the format.
PrintTitleAnyFormat ==
    /\ pc = "filtered"
    /\ ~SinkFails(args)
    /\ ~args.list
    /\ out' = Append(out, TitleEvent(Len(tests)))
    /\ idx' = 1
    /\ pc' = IF IsSequential(args) THEN "seq" ELSE "dispatch"
    /\ UNCHANGED <<inputs, tests, conclusion, failed_tests, main_eval, queue,
                   active, chan, taken, result, evals, handled, sent>>

\* printer.print_title and the choice of the execution branch.
PrintTitle ==
    /\ pc = "filtered"
    /\ ~SinkFails(args)
    /\ ~args.list
    /\ PrinterFormat(args) # Json
    /\ out' = Append(out, TitleEvent(Len(tests)))
    /\ idx' = 1
    /\ pc' = IF IsSequential(args) THEN "seq" ELSE "dispatch"
    /\ UNCHANGED <<inputs, tests, conclusion, failed_tests, main_eval, queue,
                   active, chan, taken, result, evals, handled, sent>>

\* printer.print_title with the Json format: unimplemented!() panics.
PrintTitlePanics ==
    /\ pc = "filtered"
    /\ ~SinkFails(args)
    /\ ~args.list
    /\ PrinterFormat(args) = Json
    /\ pc' = "panicked"
    /\ UNCHANGED <<inputs, tests, conclusion, failed_tests, out, idx, main_eval,
                   queue, active, chan, taken, result, evals, handled, sent>>

\* handle_outcome(outcome, test, printer), as its effect on the state.
HandleOutcome(o, t, printed) ==
    /\ out' = Append(printed, OutcomeEvent(t, o))
    /\ conclusion' = Aggregate(conclusion, o, catalog[t])
    /\ failed_tests' = RecordFailure(failed_tests, o, t)
    /\ handled' = [handled EXCEPT ![t] = @ + 1]

\* The sequential branch skipping the announcement of an ignored test.
SeqIgnoredUnannounced ==
    /\ pc = "seq"
    /\ idx <= Len(tests)
    /\ is_ignored(args, catalog[tests[idx]])
    /\ HandleOutcome(Ignored, tests[idx], out)
    /\ idx' = idx + 1
    /\ UNCHANGED <<inputs, pc, tests, main_eval, queue, active, chan, taken,
                   result, evals, sent>>

\* Sequential branch, an ignored test: print_test, Outcome::Ignored,
\* handle_outcome.
SeqIgnored ==
    /\ pc = "seq"
    /\ idx <= Len(tests)
    /\ is_ignored(args, catalog[tests[idx]])
    /\ HandleOutcome(Ignored, tests[idx], Append(out, TestEvent(tests[idx])))
    /\ idx' = idx + 1
    /\ UNCHANGED <<inputs, pc, tests, main_eval, queue, active, chan, taken,
                   result, evals, sent>>

\* Sequential branch, a test that runs: print_test, then the runner is called
\* on the calling thread.
SeqCallRunner ==
    /\ pc = "seq"
    /\ idx <= Len(tests)
    /\ ~is_ignored(args, catalog[tests[idx]])
    /\ out' = Append(out, TestEvent(tests[idx]))
    /\ main_eval' = Some(tests[idx])
    /\ evals' = [evals EXCEPT ![tests[idx]] = @ + 1]
    /\ pc' = "seq_eval"
    /\ UNCHANGED <<inputs, tests, conclusion, failed_tests, idx, queue, active,
                   chan, taken, result, handled, sent>>

\* Sequential branch: the runner returns and handle_outcome takes its outcome.
SeqRunnerReturns ==
    /\ pc = "seq_eval"
    /\ runner[main_eval[1]] \in Outcome
    /\ HandleOutcome(runner[main_eval[1]], main_eval[1], out)
    /\ main_eval' = None
    /\ idx' = idx + 1
    /\ pc' = "seq"
    /\ UNCHANGED <<inputs, tests, queue, active, chan, taken, result, evals,
                   sent>>

\* Sequential branch: the runner panics on the calling thread, and the panic
\* unwinds through run_tests.
SeqRunnerPanics ==
    /\ pc = "seq_eval"
    /\ runner[main_eval[1]] = Panics
    /\ main_eval' = None
    /\ pc' = "panicked"
    /\ UNCHANGED <<inputs, tests, conclusion, failed_tests, out, idx, queue,
                   active, chan, taken, result, evals, handled, sent>>

\* Sequential branch: the for loop ends.
SeqDone ==
    /\ pc = "seq"
    /\ idx > Len(tests)
    /\ pc' = "finish"
    /\ UNCHANGED <<inputs, tests, conclusion, failed_tests, out, idx, main_eval,
                   queue, active, chan, taken, result, evals, handled, sent>>

\* The thread-pool branch with the `else` lost: an ignored test is sent as
\* Ignored and handed to the pool as well.
DispatchIgnoredAndExecuted ==
    /\ pc = "dispatch"
    /\ idx <= Len(tests)
    /\ is_ignored(args, catalog[tests[idx]])
    /\ chan' = Append(chan, <<Ignored, tests[idx]>>)
    /\ sent' = Append(sent, tests[idx])
    /\ queue' = Append(queue, tests[idx])
    /\ idx' = idx + 1
    /\ UNCHANGED <<inputs, pc, tests, conclusion, failed_tests, out, main_eval,
                   active, taken, result, evals, handled>>

\* Thread-pool branch, an ignored test: sender.send((Outcome::Ignored, test)).
DispatchIgnored ==
    /\ pc = "dispatch"
    /\ idx <= Len(tests)
    /\ is_ignored(args, catalog[tests[idx]])
    /\ chan' = Append(chan, <<Ignored, tests[idx]>>)
    /\ sent' = Append(sent, tests[idx])
    /\ idx' = idx + 1
    /\ UNCHANGED <<inputs, pc, tests, conclusion, failed_tests, out, main_eval,
                   queue, active, taken, result, evals, handled>>

\* The thread-pool branch announcing a test when it is handed to the pool.
DispatchExecuteAnnounced ==
    /\ pc = "dispatch"
    /\ idx <= Len(tests)
    /\ ~is_ignored(args, catalog[tests[idx]])
    /\ out' = Append(out, TestEvent(tests[idx]))
    /\ queue' = Append(queue, tests[idx])
    /\ idx' = idx + 1
    /\ UNCHANGED <<inputs, pc, tests, conclusion, failed_tests, main_eval,
                   active, chan, taken, result, evals, handled, sent>>

\* Thread-pool branch, a test that runs: pool.execute(job).
DispatchExecute ==
    /\ pc = "dispatch"
    /\ idx <= Len(tests)
    /\ ~is_ignored(args, catalog[tests[idx]])
    /\ queue' = Append(queue, tests[idx])
    /\ idx' = idx + 1
    /\ UNCHANGED <<inputs, pc, tests, conclusion, failed_tests, out, main_eval,
                   active, chan, taken, result, evals, handled, sent>>

\* Thread-pool branch: the dispatch loop ends, the drain loop begins.
DispatchDone ==
    /\ pc = "dispatch"
    /\ idx > Len(tests)
    /\ taken' = 0
    /\ pc' = "drain"
    /\ UNCHANGED <<inputs, tests, conclusion, failed_tests, out, idx, main_eval,
                   queue, active, chan, result, evals, handled, sent>>

\* The size of the pool: ThreadPool::default() has one worker per CPU.
PoolSize == num_cpus

\* A free worker of the pool takes the oldest job and calls the runner.
WorkerStart ==
    /\ Len(queue) > 0
    /\ Cardinality(active) < PoolSize
    /\ active' = active \cup {Head(queue)}
    /\ queue' = Tail(queue)
    /\ evals' = [evals EXCEPT ![Head(queue)] = @ + 1]
    /\ UNCHANGED <<inputs, pc, tests, conclusion, failed_tests, out, idx,
                   main_eval, chan, taken, result, handled, sent>>

\* A worker that runs a failed test once more instead of reporting it.
WorkerFinishRetriesFailed(t) ==
    /\ t \in active
    /\ active' = active \ {t}
    /\ IF runner[t] = Failed /\ evals[t] < 2
       THEN /\ queue' = Append(queue, t)
            /\ UNCHANGED <<chan, sent>>
       ELSE /\ chan' = Append(chan, <<runner[t], t>>)
            /\ sent' = Append(sent, t)
            /\ UNCHANGED queue
    /\ UNCHANGED <<inputs, pc, tests, conclusion, failed_tests, out, idx,
                   main_eval, taken, result, evals, handled>>

\* A worker that prints the outcome itself before sending it.
WorkerFinishPrints(t) ==
    /\ t \in active
    /\ active' = active \ {t}
    /\ out' = Append(out, OutcomeEvent(t, runner[t]))
    /\ chan' = Append(chan, <<runner[t], t>>)
    /\ sent' = Append(sent, t)
    /\ UNCHANGED <<inputs, pc, tests, conclusion, failed_tests, idx,
                   main_eval, queue, taken, result, evals, handled>>

\* A worker's runner returns: sender.send((outcome, test)).
WorkerFinish(t) ==
    /\ t \in active
    /\ runner[t] \in Outcome
    /\ active' = active \ {t}
    /\ chan' = Append(chan, <<runner[t], t>>)
    /\ sent' = Append(sent, t)
    /\ UNCHANGED <<inputs, pc, tests, conclusion, failed_tests, out, idx,
                   main_eval, queue, taken, result, evals, handled>>

\* A worker's runner panics: the job ends before sender.send, the worker
\* thread is lost and the pool replaces it.
WorkerAborts(t) ==
    /\ t \in active
    /\ runner[t] = Panics
    /\ active' = active \ {t}
    /\ UNCHANGED <<inputs, pc, tests, conclusion, failed_tests, out, idx,
                   main_eval, queue, chan, taken, result, evals, handled, sent>>

\* The drain loop receives one message: print_test, handle_outcome.
Receive ==
    /\ pc = "drain"
    /\ taken < Len(tests)
    /\ Len(chan) > 0
    /\ HandleOutcome(Head(chan)[1], Head(chan)[2],
                     Append(out, TestEvent(Head(chan)[2])))
    /\ chan' = Tail(chan)
    /\ taken' = taken + 1
    /\ UNCHANGED <<inputs, pc, tests, idx, main_eval, queue, active, result,
                   evals, sent>>

\* A drain loop that also ends when the channel is empty and no job is left.
DrainDoneOnIdle ==
    /\ pc = "drain"
    /\ taken = Len(tests) \/ (chan = <<>> /\ active = {} /\ queue = <<>>)
    /\ pc' = "finish"
    /\ UNCHANGED <<inputs, tests, conclusion, failed_tests, out, idx, main_eval,
                   queue, active, chan, taken, result, evals, handled, sent>>

\* take(num_tests) is exhausted: the drain loop ends.
DrainDone ==
    /\ pc = "drain"
    /\ taken = Len(tests)
    /\ pc' = "finish"
    /\ UNCHANGED <<inputs, tests, conclusion, failed_tests, out, idx, main_eval,
                   queue, active, chan, taken, result, evals, handled, sent>>

\* The end of run_tests with the summary printed ahead of the failures.
FinishSummaryFirst ==
    /\ pc = "finish"
    /\ out' = IF Len(failed_tests) > 0
              THEN Append(Append(out, SummaryEvent(conclusion)),
                          FailuresEvent(failed_tests))
              ELSE Append(out, SummaryEvent(conclusion))
    /\ result' = Some(conclusion)
    /\ pc' = "done"
    /\ UNCHANGED <<inputs, tests, conclusion, failed_tests, idx, main_eval,
                   queue, active, chan, taken, evals, handled, sent>>

\* print_failures if there were any, print_summary, return the conclusion.
Finish ==
    /\ pc = "finish"
    /\ out' = Append(IF Len(failed_tests) > 0
                     THEN Append(out, FailuresEvent(failed_tests))
                     ELSE out,
                     SummaryEvent(conclusion))
    /\ result' = Some(conclusion)
    /\ pc' = "done"
    /\ UNCHANGED <<inputs, tests, conclusion, failed_tests, idx, main_eval,
                   queue, active, chan, taken, evals, handled, sent>>

Next ==
    \/ ApplyFiltering
    \/ PrinterNewPanics
    \/ ListTests
    \/ ListTestsPanics
    \/ PrintTitle
    \/ PrintTitlePanics
    \/ SeqIgnored
    \/ SeqCallRunner
    \/ SeqRunnerReturns
    \/ SeqDone
    \/ DispatchIgnored
    \/ DispatchExecute
    \/ DispatchDone
    \/ WorkerStart
    \/ \E t \in active : WorkerFinish(t)
    \/ Receive
    \/ DrainDone
    \/ Finish

\* ------------------------------------------------------------ initial states
\* #[derive(Default)] on Arguments.
DefaultArgs ==
    [filter_string |-> None, exact |-> FALSE, skip |-> <<>>,
     include_ignored |-> FALSE, ignored |-> FALSE, test |-> FALSE,
     bench |-> FALSE, list |-> FALSE, num_threads |-> None,
     quiet |-> FALSE, format |-> None, logfile |-> None]

\* All sequences over S of length at most n.
SeqsUpTo(S, n) == UNION {[1..k -> S] : k \in 0..n}

\* Values of --test-threads: absent, 0, 1, 2.
ThreadOptions == {None, Some(0), Some(1), Some(2)}

\* The name of the k-th test when names do not matter: a, b, c, ...
Letters == <<"a", "b", "c", "d", "e", "f">>
NthName(k) == <<Letters[k]>>

\* Catalogs whose tests differ in their flags; the k-th test is named by the
\* k-th letter.
FlagCatalogs ==
    {[k \in 1..Len(f) |-> Test(NthName(k), f[k][1], f[k][2])] :
        f \in SeqsUpTo(BOOLEAN \X BOOLEAN, MaxTests)}

\* The tests of the catalogs whose names differ.
NamedTests ==
    {Test(s_alpha, FALSE, FALSE), Test(s_beta, FALSE, FALSE),
     Test(s_calpha, FALSE, TRUE), Test(s_beta, TRUE, FALSE)}

\* Catalogs whose tests differ in their names.
NameCatalogs == SeqsUpTo(NamedTests, MaxTests)

\* Catalogs of plain and ignored tests, named by position.
PlainCatalogs ==
    {[k \in 1..Len(f) |-> Test(NthName(k), f[k], FALSE)] :
        f \in SeqsUpTo(BOOLEAN, MaxTests)}

\* Runners that give every test the same outcome.
ConstantRunners(cat) ==
    {[t \in 1..Len(cat) |-> o] : o \in {Passed, Failed, Measured}}

\* The runner a benchmark harness would write: benchmarks are measured, tests
\* pass.
NaturalRunner(cat) ==
    [t \in 1..Len(cat) |-> IF cat[t].is_bench THEN Measured ELSE Passed]

\* Every runner over the given outcomes; on a test marked is_ignored, which
\* these runs never evaluate, the runner is fixed to the first outcome.
AllRunners(cat, first, others) ==
    {r \in [1..Len(cat) -> {first} \cup others] :
        \A t \in 1..Len(cat) : cat[t].is_ignored => r[t] = first}

\* The state in which run_tests is entered.
Start(a, cat, r, cpus) ==
    /\ args = a
    /\ catalog = cat
    /\ runner = r
    /\ num_cpus = cpus
    /\ pc = "start"
    /\ tests = <<>>
    /\ conclusion = EmptyConclusion
    /\ failed_tests = <<>>
    /\ out = <<>>
    /\ idx = 1
    /\ main_eval = None
    /\ queue = <<>>
    /\ active = {}
    /\ chan = <<>>
    /\ taken = 0
    /\ result = None
    /\ evals = [t \in 1..Len(cat) |-> 0]
    /\ handled = [t \in 1..Len(cat) |-> 0]
    /\ sent = <<>>

\* Runs that vary the filter, the skip patterns and the names.
FilterRuns ==
    \E f \in {None, Some(s_a), Some(s_al), Some(s_alpha)},
       e \in BOOLEAN,
       s \in {<<>>, <<s_c>>, <<s_c, s_beta>>},
       l \in BOOLEAN,
       n \in {None, Some(1)},
       cat \in NameCatalogs :
        Start([DefaultArgs EXCEPT !.filter_string = f, !.exact = e, !.skip = s,
                                  !.list = l, !.num_threads = n],
              cat, [t \in 1..Len(cat) |-> Passed], 1)

\* The flags that select tests: include_ignored, ignored, test, bench.
\* include_ignored is varied with --test and --bench unset.
SelectionFlags ==
    {<<FALSE, ig, t, b>> : ig \in BOOLEAN, t \in BOOLEAN, b \in BOOLEAN}
        \cup {<<TRUE, ig, FALSE, FALSE>> : ig \in BOOLEAN}

\* Runs that vary the flags of the tests and the flags that select them; the
\* runner is varied in the sequential branch, where its outcome decides as
\* much as in the pool.
FlagRuns ==
    \E fl \in SelectionFlags,
       m \in {<<Some(1), TRUE>>, <<None, FALSE>>},
       cat \in FlagCatalogs :
        \E r \in (IF m[1] = None THEN {} ELSE ConstantRunners(cat))
                     \cup {NaturalRunner(cat)} :
            Start([DefaultArgs EXCEPT !.include_ignored = fl[1], !.ignored = fl[2],
                                      !.test = fl[3], !.bench = fl[4],
                                      !.num_threads = m[1], !.quiet = m[2]],
                  cat, r, 1)

\* Runs that vary the execution branch, the pool, the format and the runner.
PoolRuns ==
    \E n \in ThreadOptions,
       qf \in {<<TRUE, None>>, <<FALSE, None>>, <<FALSE, Some(Json)>>},
       c \in 1..MaxCpus,
       cat \in PlainCatalogs :
        \E r \in AllRunners(cat, Passed, {Failed}) :
            Start([DefaultArgs EXCEPT !.num_threads = n, !.quiet = qf[1],
                                      !.format = qf[2]],
                  cat, r, c)

\* Runs that vary the logfile and the format, on the list path and off it.
SinkRuns ==
    \E lf \in {None, Some(s_log), Some(s_nodir_log)},
       f \in {None, Some(Terse), Some(Json)},
       l \in BOOLEAN,
       n \in {None, Some(1)},
       cat \in PlainCatalogs :
        Start([DefaultArgs EXCEPT !.logfile = lf, !.format = f, !.list = l,
                                  !.num_threads = n],
              cat, [t \in 1..Len(cat) |-> Passed], 1)

Init == FilterRuns \/ FlagRuns \/ PoolRuns \/ SinkRuns

Spec == Init /\ [][Next]_vars

\* Runs whose runner may panic on some tests, in both branches.
AbortRuns ==
    \E n \in {None, Some(1)},
       c \in 1..MaxCpus,
       cat \in PlainCatalogs :
        \E r \in AllRunners(cat, Passed, {Failed, Panics}) :
            Start([DefaultArgs EXCEPT !.num_threads = n], cat, r, c)

InitWithAborts == SinkRuns \/ AbortRuns

\* The steps of the thread that called run_tests.
CoordinatorStep ==
    \/ ApplyFiltering
    \/ PrinterNewPanics
    \/ ListTests
    \/ ListTestsPanics
    \/ PrintTitle
    \/ PrintTitlePanics
    \/ SeqIgnored
    \/ SeqCallRunner
    \/ SeqRunnerReturns
    \/ SeqRunnerPanics
    \/ SeqDone
    \/ DispatchIgnored
    \/ DispatchExecute
    \/ DispatchDone
    \/ Receive
    \/ DrainDone
    \/ Finish

\* The steps of the pool's worker threads.
WorkerStep ==
    \/ WorkerStart
    \/ \E t \in active : WorkerFinish(t)
    \/ \E t \in active : WorkerAborts(t)

NextWithAborts == CoordinatorStep \/ WorkerStep

\* Every thread that can take a step is scheduled eventually.
FairSpec ==
    /\ InitWithAborts
    /\ [][NextWithAborts]_vars
    /\ WF_vars(CoordinatorStep)
    /\ WF_vars(WorkerStep)

\* ------------------------------------------------------------- properties
\* run_tests returned from a run that was not a --list request.
RanAndReturned == pc = "done" /\ ~args.list

\* The elements of a sequence.
Range(q) == {q[k] : k \in 1..Len(q)}

\* The number of outcome events the printer received for test t.
OutcomeEvents(t) ==
    Cardinality({k \in 1..Len(out) :
        out[k].op = "print_single_outcome" /\ out[k].test = t})

\* The catalog positions the filter and the skip patterns let through, by the
\* selector's rule.
Kept == SelectSeq(Positions(Len(catalog)),
                  LAMBDA t : ~is_filtered_out(args, catalog[t]))

\* The selector's classes.
FilteredOutTests == {t \in 1..Len(catalog) : is_filtered_out(args, catalog[t])}
IgnoredTests ==
    {t \in 1..Len(catalog) \ FilteredOutTests : is_ignored(args, catalog[t])}
RunnableTests == (1..Len(catalog) \ FilteredOutTests) \ IgnoredTests

\* C1: after a run that is not list-only, filtered_out + passed + failed +
\* ignored + num_benches of the returned Conclusion is the size of the catalog.
C1_CountsSumToCatalog ==
    RanAndReturned =>
        LET c == result[1]
        IN c.num_filtered_out + c.num_passed + c.num_failed + c.num_ignored
               + c.num_benches = Len(catalog)

\* C2: every test left after filtering gets exactly one outcome event and one
\* aggregation update (never two, at any time), and when the run returns all
\* of them were handled and the channel is empty.
C2_ExactlyOneOutcome ==
    /\ LET kept == Range(Kept)
       IN \A t \in 1..Len(catalog) :
              /\ handled[t] <= 1
              /\ OutcomeEvents(t) = handled[t]
              /\ (t \notin kept) => handled[t] = 0
    /\ RanAndReturned =>
           /\ \A t \in Range(Kept) : handled[t] = 1 /\ OutcomeEvents(t) = 1
           /\ Cardinality({k \in 1..Len(out) : out[k].op = "print_single_outcome"})
                  = Len(Kept)
           /\ chan = <<>>

C2_Witness ==
    /\ RanAndReturned
    /\ args.num_threads # Some(1)
    /\ Len(Kept) = 2
    /\ Len(catalog) > Len(Kept)
    /\ IgnoredTests # {}
    /\ RunnableTests # {}

\* The outcome events of test t are all Ignored and the runner never saw it.
NeverRunAndIgnored(t) ==
    /\ evals[t] = 0
    /\ t \notin Running
    /\ \A k \in 1..Len(out) :
           (out[k].op = "print_single_outcome" /\ out[k].test = t)
               => out[k].outcome = Ignored
    /\ RanAndReturned => OutcomeEvents(t) = 1

\* C3 as stated: without include-ignored, whatever the ignored-only flag, a
\* test with is_ignored that is not filtered out is Ignored and never run.
C3_IgnoredUnlessIncludeIgnored ==
    ~args.include_ignored =>
        \A t \in Range(Kept) : catalog[t].is_ignored => NeverRunAndIgnored(t)

\* C3 amended: when neither include-ignored nor ignored-only is set, a test
\* with is_ignored that is not filtered out is Ignored and never run, in both
\* modes and whatever test-only and bench-only are.
C3_IgnoredUnlessIgnoredFlag ==
    (~args.include_ignored /\ ~args.ignored) =>
        \A t \in Range(Kept) : catalog[t].is_ignored => NeverRunAndIgnored(t)

C3_Witness ==
    /\ RanAndReturned
    /\ ~args.include_ignored /\ ~args.ignored /\ ~args.test /\ ~args.bench
    /\ args.num_threads # Some(1)
    /\ \E t \in Range(Kept) : catalog[t].is_ignored /\ handled[t] = 1
    /\ \E t \in Range(Kept) : evals[t] = 1

\* C4: the runner is called exactly once on each runnable test and never on a
\* filtered-out or ignored one; no evaluation is repeated.
C4_EvaluatedExactlyOnce ==
    /\ \A t \in 1..Len(catalog) : evals[t] <= 1
    /\ \A t \in FilteredOutTests \cup IgnoredTests : evals[t] = 0
    /\ RanAndReturned => \A t \in RunnableTests : evals[t] = 1

C4_Witness ==
    /\ RanAndReturned
    /\ FilteredOutTests # {}
    /\ IgnoredTests # {}
    /\ \E t \in RunnableTests : runner[t] = Passed /\ evals[t] = 1

\* No evaluation was handed to the pool and at most one is in progress.
RunsOnCallingThread ==
    /\ queue = <<>>
    /\ active = {}
    /\ chan = <<>>
    /\ Cardinality(Running) <= 1

\* C5 as stated: with the worker count absent, 0 or 1 the run is sequential.
C5_SequentialWhenAbsentZeroOrOne ==
    args.num_threads \in {None, Some(0), Some(1)} => RunsOnCallingThread

\* C5 amended: with the worker count exactly 1 the run is sequential: every
\* evaluation is on the calling thread, none goes to the pool, and at most
\* one is in progress.
C5_SequentialWhenOne ==
    args.num_threads = Some(1) => RunsOnCallingThread

C5_Witness ==
    /\ args.num_threads = Some(1)
    /\ main_eval # None
    /\ idx = 2

\* The outcome run_tests hands to handle_outcome for a test left after
\* filtering: Ignored without a call, or what the runner returns.
EffOutcome(t) == IF is_ignored(args, catalog[t]) THEN Ignored ELSE runner[t]

\* The announcement and the outcome of each test of q, test after test.
RECURSIVE Pairs(_)
Pairs(q) ==
    IF q = <<>> THEN <<>>
    ELSE <<TestEvent(Head(q)), OutcomeEvent(Head(q), EffOutcome(Head(q)))>>
             \o Pairs(Tail(q))

\* The Conclusion the sequential branch builds: handle_outcome applied to the
\* tests in catalog order.
RECURSIVE FoldOutcomes(_, _)
FoldOutcomes(c, q) ==
    IF q = <<>> THEN c
    ELSE FoldOutcomes(Aggregate(c, EffOutcome(Head(q)), catalog[Head(q)]), Tail(q))

SeqConclusion ==
    FoldOutcomes([EmptyConclusion EXCEPT
                      !.num_filtered_out = Len(catalog) - Len(Kept)], Kept)

\* The failed tests, in catalog order.
FailedInOrder ==
    LET f == SelectSeq(Kept, LAMBDA t : EffOutcome(t) = Failed)
    IN [k \in 1..Len(f) |-> <<f[k], FailureMessage(f[k])>>]

\* What the printer has received in the sequential branch after k tests.
SeqTrace(k) == <<TitleEvent(Len(Kept))>> \o Pairs(SubSeq(Kept, 1, k))

\* The whole output of a sequential run, from the inputs alone.
ExpectedSeqOut ==
    SeqTrace(Len(Kept))
        \o (IF FailedInOrder # <<>> THEN <<FailuresEvent(FailedInOrder)>> ELSE <<>>)
        \o <<SummaryEvent(SeqConclusion)>>

\* The text written for the tests: announcements and outcomes, in order.
RECURSIVE PerTestText(_)
PerTestText(q) ==
    IF q = <<>> THEN <<>>
    ELSE (CASE Head(q).op = "print_test" ->
                   PrintTestText(PrinterFormat(args), catalog[Head(q).test].name)
            [] Head(q).op = "print_single_outcome" ->
                   PrintOutcomeText(PrinterFormat(args), Head(q).outcome)
            [] OTHER -> <<>>)
         \o PerTestText(Tail(q))

\* The catalog a, b (ignored), c run quietly on one thread, all tests passing.
IsAbcExample ==
    /\ catalog = <<Test(s_a, FALSE, FALSE), Test(s_b, TRUE, FALSE),
                   Test(s_c, FALSE, FALSE)>>
    /\ args = [DefaultArgs EXCEPT !.num_threads = Some(1), !.quiet = TRUE]
    /\ \A t \in 1..3 : runner[t] = Passed

\* C6: in the sequential branch the printer receives announce(i), outcome(i)
\* for the kept tests in catalog order, test i is being evaluated only between
\* its announcement and its outcome and only after all earlier tests are done,
\* and the whole output is a function of the catalog, the arguments and the
\* runner; the a, b (ignored), c example writes ".i." in terse mode.
C6_SequentialOrder ==
    /\ (args.num_threads = Some(1) /\ ~args.list) =>
           /\ pc = "seq" =>
                  /\ out = SeqTrace(idx - 1)
                  /\ Running = {}
           /\ pc = "seq_eval" =>
                  /\ out = SeqTrace(idx - 1) \o <<TestEvent(Kept[idx])>>
                  /\ Running = {Kept[idx]}
           /\ pc \in {"seq", "seq_eval"} =>
                  \A j \in 1..Len(Kept) :
                      /\ j < idx => evals[Kept[j]] =
                             (IF Kept[j] \in RunnableTests THEN 1 ELSE 0)
                      /\ j > idx => evals[Kept[j]] = 0
           /\ pc = "finish" => out = SeqTrace(Len(Kept))
           /\ pc = "done" => out = ExpectedSeqOut
    /\ (IsAbcExample /\ pc = "done") => PerTestText(out) = <<".", "i", ".">>

C6_Witness ==
    /\ IsAbcExample
    /\ pc = "done"
    /\ Len(out) = 8

\* The per-test calls made on the printer.
PerTestEvents ==
    SelectSeq(out, LAMBDA e : e.op \in {"print_test", "print_single_outcome"})

\* The tests whose messages the drain loop has received, in channel order.
Received == SubSeq(sent, 1, taken)

\* C7: in the thread-pool branch the per-test output is, at every moment, the
\* complete (announcement, outcome) pairs of the tests received so far, in
\* the order their messages were sent on the channel; a test is announced
\* only after its evaluation has finished; and the order is a permutation of
\* the tests left after filtering.
C7_ConcurrentPairs ==
    (args.num_threads # Some(1) /\ ~args.list /\ pc \notin {"start", "filtered", "panicked"}) =>
        /\ PerTestEvents = Pairs(Received)
        /\ \A t \in Range(Received) :
               /\ t \notin active
               /\ t \notin Range(queue)
               /\ evals[t] = (IF t \in RunnableTests THEN 1 ELSE 0)
        /\ Range(sent) \subseteq Range(Kept)
        /\ Cardinality(Range(sent)) = Len(sent)
        /\ pc = "done" => (Len(sent) = Len(Kept) /\ taken = Len(Kept))

C7_Witness ==
    /\ RanAndReturned
    /\ args.num_threads # Some(1)
    /\ Len(Kept) = 3
    /\ sent # Kept
    /\ PerTestEvents = Pairs(sent)

\* C8: with a worker count N > 1 at most N evaluations are in progress.
C8_AtMostNEvaluations ==
    (args.num_threads # None /\ args.num_threads[1] > 1) =>
        Cardinality(Running) <= args.num_threads[1]

\* C9: the returned counts and the set of recorded failures are those of the
\* sequential fold over the catalog order, whatever order the completions
\* arrived in.
C9_OrderIndependent ==
    RanAndReturned =>
        /\ result[1] = SeqConclusion
        /\ Range(failed_tests) = Range(FailedInOrder)
        /\ Len(failed_tests) = Len(FailedInOrder)

C9_Witness ==
    /\ RanAndReturned
    /\ args.num_threads # Some(1)
    /\ Len(failed_tests) = 2
    /\ failed_tests # FailedInOrder
    /\ result[1].num_passed = 1

\* The claim's rule of matching: equality when exact, containment otherwise.
Matches(name, pattern) ==
    IF args.exact THEN name = pattern ELSE Contains(name, pattern)

\* The claim's rule of exclusion.
Excluded(t) ==
    \/ args.filter_string # None /\ ~Matches(catalog[t].name, args.filter_string[1])
    \/ \E k \in 1..Len(args.skip) : Matches(catalog[t].name, args.skip[k])

\* The rule holds of the filter pre-pass, whatever the flags of the tests, and
\* a run that is not list-only reports the number of excluded tests.
FilteringByRule ==
    /\ pc # "start" =>
           tests = SelectSeq(Positions(Len(catalog)), LAMBDA t : ~Excluded(t))
    /\ RanAndReturned =>
           result[1].num_filtered_out =
               Cardinality({t \in 1..Len(catalog) : Excluded(t)})

\* The names alpha, beta, calpha under a substring filter and no skip.
IsAlphaExample(filter) ==
    /\ [k \in 1..Len(catalog) |-> catalog[k].name] = <<s_alpha, s_beta, s_calpha>>
    /\ args.filter_string = Some(filter)
    /\ ~args.exact
    /\ args.skip = <<>>

KeptNames == [k \in 1..Len(tests) |-> catalog[tests[k]].name]

\* C10 as stated: the rule, and filter 'a' over alpha/beta/calpha keeps alpha
\* and calpha and reports filtered_out = 1.
C10_FilterAKeepsTwo ==
    /\ FilteringByRule
    /\ (IsAlphaExample(s_a) /\ RanAndReturned) =>
           /\ KeptNames = <<s_alpha, s_calpha>>
           /\ result[1].num_filtered_out = 1

\* C10 amended: the rule; filter 'a' over alpha/beta/calpha keeps all three
\* (beta contains an a) and reports filtered_out = 0, and filter 'al' keeps
\* alpha and calpha and reports filtered_out = 1.
C10_FilterByRule ==
    /\ FilteringByRule
    /\ (IsAlphaExample(s_a) /\ RanAndReturned) =>
           /\ KeptNames = <<s_alpha, s_beta, s_calpha>>
           /\ result[1].num_filtered_out = 0
    /\ (IsAlphaExample(s_al) /\ RanAndReturned) =>
           /\ KeptNames = <<s_alpha, s_calpha>>
           /\ result[1].num_filtered_out = 1

C10_Witness ==
    /\ RanAndReturned
    /\ IsAlphaExample(s_al)
    /\ catalog[2].is_ignored
    /\ catalog[3].is_bench
    /\ result[1].num_filtered_out = 1

\* The positions of `out` holding a call of the given printer operation.
EventsOf(op) == {k \in 1..Len(out) : out[k].op = op}

\* C11: with --list the runner is never called, the printer receives no
\* title, no per-test event, no failure listing and no summary, and the
\* Conclusion returned has every count zero, num_filtered_out included.
C11_ListBypassesExecution ==
    args.list =>
        /\ \A t \in 1..Len(catalog) : evals[t] = 0 /\ handled[t] = 0
        /\ Running = {} /\ queue = <<>> /\ chan = <<>>
        /\ \A k \in 1..Len(out) : out[k].op = "print_list"
        /\ Len(out) <= 1
        /\ pc \in {"start", "filtered", "done", "panicked"}
        /\ (pc = "done") =>
               /\ result = Some(EmptyConclusion)
               /\ result[1].num_filtered_out = 0 /\ result[1].num_passed = 0
               /\ result[1].num_failed = 0 /\ result[1].num_ignored = 0
               /\ result[1].num_benches = 0
        /\ (pc # "done") => result = None

C11_Witness ==
    /\ args.list
    /\ pc = "done"
    /\ Len(catalog) - Len(tests) > 0
    /\ conclusion.num_filtered_out > 0
    /\ Len(tests) > 0
    /\ EventsOf("print_list") = {1}

\* C12: a Failed outcome never ends the run: once a failure is recorded the
\* run still has a step to take until it returns, and when it returns every
\* test left after filtering was handled. The failure list holds one entry
\* (test, message) per Failed outcome, so its length is num_failed; the
\* failure listing is printed iff the list is not empty, with the list, and
\* directly before the summary, which is last.
C12_FailuresNeverAbort ==
    /\ Len(failed_tests) = conclusion.num_failed
    /\ \A t \in 1..Len(catalog) :
           Cardinality({k \in 1..Len(failed_tests) : failed_tests[k][1] = t})
               = Cardinality({k \in 1..Len(out) : out[k] = OutcomeEvent(t, Failed)})
    /\ \A k \in 1..Len(failed_tests) :
           failed_tests[k][2] = FailureMessage(failed_tests[k][1])
    /\ (failed_tests # <<>>) => pc \in {"seq", "seq_eval", "dispatch", "drain", "finish", "done"}
    /\ (failed_tests # <<>> /\ pc # "done") => ENABLED Next
    /\ (pc # "done") => EventsOf("print_failures") = {}
    /\ RanAndReturned =>
           /\ \A t \in Range(Kept) : handled[t] = 1
           /\ Len(failed_tests) = result[1].num_failed
           /\ out[Len(out)].op = "print_summary"
           /\ out[Len(out)].failed = Len(failed_tests)
           /\ IF failed_tests = <<>>
              THEN EventsOf("print_failures") = {}
              ELSE /\ EventsOf("print_failures") = {Len(out) - 1}
                   /\ out[Len(out) - 1] = FailuresEvent(failed_tests)

C12_Witness ==
    /\ RanAndReturned
    /\ Len(failed_tests) >= 1
    /\ \E i, j \in 1..Len(out) :
           /\ i < j
           /\ out[i].op = "print_single_outcome" /\ out[i].outcome = Failed
           /\ out[j].op = "print_single_outcome" /\ out[j].outcome = Passed
    /\ \E k \in 1..Len(failed_tests) : failed_tests[k][2] = None
    /\ EventsOf("print_failures") = {Len(out) - 1}

\* A Failed outcome was handled in this run.
SomeOutcomeFailed ==
    \E k \in EventsOf("print_single_outcome") : out[k].outcome = Failed

\* C13: when a run returns, has_failed() of the returned Conclusion holds iff
\* some handled outcome was Failed, the exit code is 101 in that case and 0
\* otherwise (0 as well after --list), and the word of the summary line is
\* FAILED iff has_failed() holds and ok otherwise.
C13_ExitCodeReflectsFailures ==
    /\ RanAndReturned =>
           LET c == result[1]
           IN /\ has_failed(c) <=> SomeOutcomeFailed
              /\ ExitCode(c) = IF SomeOutcomeFailed THEN 101 ELSE 0
              /\ out[Len(out)].op = "print_summary"
              /\ OutcomeWord(out[Len(out)].word)
                     = IF has_failed(c) THEN "FAILED" ELSE "ok"
    /\ (pc = "done" /\ args.list) => ExitCode(result[1]) = 0

C13_Witness ==
    /\ RanAndReturned
    /\ ExitCode(result[1]) = 0
    /\ \E k \in EventsOf("print_single_outcome") : out[k].outcome = Ignored
    /\ \E k \in EventsOf("print_single_outcome") : out[k].outcome = Measured

\* C14: when the printer's format is Json, or the logfile cannot be created,
\* run_tests panics before the runner is called on any test and before
\* anything is handed to the printer, and it returns no Conclusion; so it is
\* with --list as well.
C14_ConfigErrorsAbortBeforeOutput ==
    (PrinterFormat(args) = Json \/ SinkFails(args)) =>
        /\ \A t \in 1..Len(catalog) : evals[t] = 0 /\ handled[t] = 0
        /\ Running = {} /\ queue = <<>> /\ chan = <<>>
        /\ out = <<>>
        /\ result = None
        /\ pc \in {"start", "filtered", "panicked"}

C14_Witness ==
    /\ pc = "panicked"
    /\ PrinterFormat(args) = Json
    /\ ~SinkFails(args)
    /\ ~args.list
    /\ Len(tests) > 0
    /\ out = <<>>

\* The outcome the printer was given for test t (t was handled).
OutcomeOf(t) ==
    out[CHOOSE k \in EventsOf("print_single_outcome") : out[k].test = t].outcome

\* C15: after a run that is not list-only, num_benches of the returned
\* Conclusion is the number of tests left after filtering that are benchmarks
\* and whose outcome was Measured.
C15_BenchesAreMeasuredBenchmarks ==
    RanAndReturned =>
        result[1].num_benches =
            Cardinality({t \in Range(Kept) :
                catalog[t].is_bench /\ OutcomeOf(t) = Measured})

\* The run includes ignored tests: --include-ignored ("Run ignored and
\* non-ignored tests") or --ignored.
IncludesIgnoredTests(a) == a.include_ignored \/ a.ignored

\* The classification rule as stated: Ignored or Runnable.
TreatedAsIgnoredByRule(a, test) ==
    \/ test.is_ignored /\ ~IncludesIgnoredTests(a)
    \/ test.is_bench /\ a.test
    \/ ~test.is_bench /\ a.bench

\* C16: when a run that is not list-only returns, each test left after
\* filtering was given outcome Ignored without a call of the runner iff the
\* rule says Ignored, and was evaluated (once) otherwise.
C16_IgnoredByRule ==
    RanAndReturned =>
        \A t \in Range(Kept) :
            IF TreatedAsIgnoredByRule(args, catalog[t])
            THEN evals[t] = 0 /\ OutcomeOf(t) = Ignored
            ELSE evals[t] = 1 /\ OutcomeOf(t) = runner[t]

\* C17: each call of handle_outcome adds 1 to exactly one of the passed,
\* failed, ignored and measured counts (the Conclusion keeps num_benches for
\* the last), adds 1 to the benchmark count iff the test is a benchmark, and
\* leaves num_filtered_out as it was.
C17_OneCounterPerOutcome ==
    [][(handled' # handled) =>
          LET t == CHOOSE u \in 1..Len(catalog) : handled'[u] # handled[u]
              o == out'[Len(out')].outcome
              d == [f \in {"num_passed", "num_failed", "num_ignored",
                           "num_benches", "num_filtered_out"} |->
                       conclusion'[f] - conclusion[f]]
              bench == IF catalog[t].is_bench THEN 1 ELSE 0
              measured == d["num_benches"] - bench
          IN /\ d["num_filtered_out"] = 0
             /\ d["num_passed"] = (IF o = Passed THEN 1 ELSE 0)
             /\ d["num_failed"] = (IF o = Failed THEN 1 ELSE 0)
             /\ d["num_ignored"] = (IF o = Ignored THEN 1 ELSE 0)
             /\ measured = (IF o = Measured THEN 1 ELSE 0)
             /\ d["num_passed"] + d["num_failed"] + d["num_ignored"] + measured = 1
      ]_vars

\* C18: in a run that is not list-only the printer receives the title first
\* and once, with the number of tests left after filtering; then
\* (announcement, outcome) pairs, each pair for one test; then at most one
\* failure listing; then the summary, once and last, present exactly when
\* the run has returned. No per-test event comes before the title or after
\* the failure listing or the summary, and at return the number of outcome
\* events is the number in the title.
C18_RendererEventOrder ==
    (~args.list) =>
        LET n == Len(out)
            announced == EventsOf("print_test")
            outcomes == EventsOf("print_single_outcome")
            listings == EventsOf("print_failures")
            summaries == EventsOf("print_summary")
        IN /\ \A k \in 1..n :
                  out[k].op \in {"print_title", "print_test", "print_single_outcome",
                                 "print_failures", "print_summary"}
           /\ (n > 0) => (EventsOf("print_title") = {1}
                             /\ out[1].num_tests = Len(Kept))
           /\ \A k \in announced :
                  /\ k % 2 = 0
                  /\ (k < n) => out[k + 1] \in
                         {OutcomeEvent(out[k].test, o) : o \in Outcome}
           /\ \A k \in outcomes :
                  /\ k % 2 = 1 /\ k >= 3
                  /\ out[k - 1] = TestEvent(out[k].test)
           /\ Cardinality(listings) <= 1
           /\ \A k \in listings :
                  /\ \A j \in announced \cup outcomes : j < k
                  /\ k = n - 1
           /\ summaries = (IF pc = "done" THEN {n} ELSE {})
           /\ \A k \in summaries :
                  \A j \in announced \cup outcomes \cup listings : j < k
           /\ (pc = "done") => Cardinality(outcomes) = out[1].num_tests

C18_Witness ==
    /\ RanAndReturned
    /\ EventsOf("print_failures") # {}
    /\ Cardinality(EventsOf("print_single_outcome")) = 3
    /\ out[1] = TitleEvent(3)
    /\ out[Len(out)].op = "print_summary"

\* C19: the summary line printed when a run returns carries, in its passed,
\* failed, ignored, measured and filtered-out positions, the counts of the
\* Conclusion returned; the measured position is that count (num_benches is
\* the only one the Conclusion has for it), never a placeholder.
C19_SummaryLineReportsCounts ==
    RanAndReturned =>
        LET e == out[Len(out)]
            c == result[1]
        IN /\ e.op = "print_summary"
           /\ e.passed = c.num_passed
           /\ e.failed = c.num_failed
           /\ e.ignored = c.num_ignored
           /\ e.filtered_out = c.num_filtered_out
           /\ e.measured = c.num_benches
           /\ e.measured >= 0

\* Where the thread that called run_tests is, in the thread-pool branch.
Coordinator == <<pc, idx, taken>>

\* C20: in the thread-pool branch every step that writes the printer's
\* output, the Conclusion or the failure list is a step of the calling
\* thread; a step of a worker changes of the shared state at most the
\* channel, by appending one (outcome, test) message for the test it
\* evaluated; and a message leaves the channel only in the calling thread's
\* drain loop.
C20_OnlyCoordinatorWrites ==
    [][(args.num_threads # Some(1)) =>
          /\ (out' # out \/ conclusion' # conclusion \/ failed_tests' # failed_tests)
                 => Coordinator' # Coordinator
          /\ (Coordinator' = Coordinator) =>
                 /\ UNCHANGED <<out, conclusion, failed_tests, handled, result, tests>>
                 /\ \/ chan' = chan
                    \/ \E t \in active :
                           /\ chan' = Append(chan, <<runner[t], t>>)
                           /\ active' = active \ {t}
          /\ (Len(chan') < Len(chan)) =>
                 /\ pc = "drain" /\ pc' = "drain"
                 /\ taken' = taken + 1
                 /\ chan' = Tail(chan)
                 /\ active' = active /\ queue' = queue
      ]_vars

C20_Witness ==
    /\ args.num_threads # Some(1)
    /\ pc = "drain"
    /\ taken >= 1
    /\ active # {}
    /\ Len(sent) >= 2
    /\ Len(chan) >= 1

\* run_tests has entered one of its two branches (modes).
InEitherMode == pc \in {"seq", "dispatch"}

\* The runner returns an outcome for every test it is called on.
EveryEvaluationReturns == \A t \in RunnableTests : runner[t] \in Outcome

\* run_tests has drained every completion, printed the summary and returned.
DrainedAndReturned ==
    /\ pc = "done"
    /\ result = Some(conclusion)
    /\ chan = <<>> /\ queue = <<>> /\ active = {}
    /\ \A t \in Range(Kept) : handled[t] = 1
    /\ out[Len(out)].op = "print_summary"

\* The calling thread is in the drain loop with nothing to receive.
BlockedOnChannel ==
    /\ pc = "drain"
    /\ chan = <<>>
    /\ taken < Len(tests)
    /\ result = None

\* In the thread-pool branch an evaluation has ended without a message: the
\* test was evaluated, is no longer running and was never sent.
CompletionLost ==
    /\ args.num_threads # Some(1)
    /\ \E t \in 1..Len(catalog) :
           evals[t] = 1 /\ t \notin active /\ t \notin Range(sent)

\* C21: with every thread scheduled fairly, a run that has entered either
\* branch and whose runner returns on every test it is called on eventually
\* drains all completions, prints the summary and returns. The calling
\* thread is never unable to step except in the drain loop on an empty
\* channel, and it leaves that loop after exactly as many messages as there
\* are tests left after filtering. Once a worker's evaluation has ended
\* without a message, the calling thread ends up blocked in the drain loop
\* for ever and run_tests never returns.
C21_ReturnsUnlessCompletionLost ==
    /\ (InEitherMode /\ EveryEvaluationReturns) ~> DrainedAndReturned
    /\ []((pc \notin {"done", "panicked"} /\ ~ENABLED CoordinatorStep)
              => BlockedOnChannel)
    /\ [](taken <= Len(tests))
    /\ []((args.num_threads # Some(1) /\ pc \in {"finish", "done"} /\ ~args.list)
              => (taken = Len(Kept) /\ Len(sent) = Len(Kept)))
    /\ [](CompletionLost => pc \notin {"finish", "done"})
    /\ CompletionLost ~> [](BlockedOnChannel /\ active = {} /\ queue = <<>>)

C21_Witness ==
    /\ CompletionLost
    /\ BlockedOnChannel
    /\ ~ENABLED NextWithAborts
    /\ taken >= 1
    /\ Len(tests) = 3
    /\ num_cpus >= 2

\* The permutations of 1..n.
Perms(n) ==
    {p \in [1..n -> 1..n] : \A i, j \in 1..n : (p[i] = p[j]) => (i = j)}

\* Sequence q rearranged by permutation p.
Permuted(q, p) == [k \in 1..Len(q) |-> q[p[k]]]

\* The tests of cat that the filter pre-pass of run_tests retains, as a set.
RetainedTests(a, cat) == {cat[t] : t \in Range(Retain(a, cat))}

\* C22: right after the filter pre-pass, applying the same filter and skip
\* patterns to the retained tests removes none of them, and the set of
\* retained tests is the same for every order of the catalog and every order
\* of the skip patterns.
C22_FilteringIdempotentAnyOrder ==
    (pc = "filtered") =>
        LET kept == [k \in 1..Len(tests) |-> catalog[tests[k]]]
        IN /\ Retain(args, kept) = Positions(Len(kept))
           /\ \A t \in 1..Len(kept) : ~is_filtered_out(args, kept[t])
           /\ \A p \in Perms(Len(catalog)) :
                  /\ RetainedTests(args, Permuted(catalog, p)) = Range(kept)
                  /\ Len(Retain(args, Permuted(catalog, p))) = Len(kept)
           /\ \A p \in Perms(Len(args.skip)) :
                  Retain([args EXCEPT !.skip = Permuted(args.skip, p)], catalog)
                      = tests

C22_Witness ==
    /\ pc = "filtered"
    /\ args.filter_string # None
    /\ Len(args.skip) = 2
    /\ Len(catalog) = 3
    /\ Len(tests) = 1
    /\ \E t \in 1..Len(catalog) :
           /\ ~SkipArm(args.exact, catalog[t].name, args.skip[1])
           /\ SkipArm(args.exact, catalog[t].name, args.skip[2])
    /\ \E t \in 1..Len(catalog) : SkipArm(args.exact, catalog[t].name, args.skip[1])
    /\ tests # <<1>>

====
